---- MODULE Spec2Model ----
(***************************************************************************)
(* Model of sim::MazeInterface (src/src/sim/MazeInterface.cpp) and of      *)
(* mms::TransformationMatrix (src/src/sim/TransformationMatrix.cpp).       *)
(*                                                                         *)
(* Three specifications share the variables:                               *)
(*   SpecMaze   the wall-grid interface: setWall, getWidth, getHeight;     *)
(*   SpecView   the two transformation-matrix builders, applied to inputs  *)
(*              drawn by the initial state;                                *)
(*   SpecMul    multiply4x4Matrices applied to three matrices.             *)
(* Real numbers (double, float) are exact rationals <<n, d>>, d > 0, in    *)
(* lowest terms; float rounding is not modelled.                           *)
(***************************************************************************)
EXTENDS Integers, Sequences, FiniteSets, TLC

VARIABLES
    m_basicMaze,  \* MazeInterface::m_basicMaze: [null, v]; v[x+1][y+1] is tile (x, y)
    call,         \* the last call made on the interface and its arguments
    outcome,      \* how that call ended: "returned", "threw", "crashed"
    ret,          \* the value it returned (getWidth, getHeight)
    printed,      \* what it passed to SimUtilities::print
    nCalls,       \* number of calls made so far
    view,         \* a transformation-matrix builder call: inputs, pc, result
    mul           \* a multiply4x4Matrices experiment: a, b, c, products, pc

vars == <<m_basicMaze, call, outcome, ret, printed, nCalls, view, mul>>

mazeVars == <<m_basicMaze, call, outcome, ret, printed, nCalls>>

(***************************************************************************)
(* Bounds.                                                                 *)
(***************************************************************************)
MaxWidth == 2
MaxHeight == 2
MaxCalls == 1
MaxPhys == 3
MaxZoom == 2
MaxSeed == 4

(***************************************************************************)
(* The tile grid.                                                          *)
(***************************************************************************)
Directions == {"NORTH", "EAST", "SOUTH", "WEST"}

CHAR_TO_DIRECTION ==
    [c \in {"n", "e", "s", "w"} |->
        CASE c = "n" -> "NORTH"
          [] c = "e" -> "EAST"
          [] c = "s" -> "SOUTH"
          [] c = "w" -> "WEST"]

\* The direction characters a caller passes: the four codes and one other.
Chars == {"n", "e", "s", "w", "x"}

mapContains(m, key) == key \in DOMAIN m

\* A tile whose four wall flags all equal b.
Tile(b) == [walls |-> [d \in Directions |-> b]]

\* A column of h tiles; the columns of a grid need not be equally long.
Column(h, b) == [y \in 1..h |-> Tile(b)]

RECURSIVE SeqsUpTo(_, _)
SeqsUpTo(S, n) ==
    IF n = 0 THEN {<<>>}
    ELSE LET shorter == SeqsUpTo(S, n - 1)
         IN  shorter \cup {Append(s, e) : s \in {t \in shorter : Len(t) = n - 1}, e \in S}

\* The grids a MazeInterface is constructed on: a null pointer, or a vector
\* of at most MaxWidth columns of at most MaxHeight tiles each, with no wall
\* set or every wall set.
InitialMazes ==
    {[null |-> TRUE, v |-> <<>>]}
    \cup {[null |-> FALSE, v |-> [x \in 1..Len(hs) |-> Column(hs[x], b)]]
            : hs \in SeqsUpTo(0..MaxHeight, MaxWidth), b \in BOOLEAN}

\* What a read through a null pointer may yield when it does not crash.
UBInts == {-1, 0, 1}

sizeOfOuter(m) == Len(m.v)

getWidth(m) == sizeOfOuter(m)

getHeight(m) == IF Len(m.v) > 0 THEN Len(m.v[1]) ELSE 0

NoCall == [op |-> "none"]

OutOfBoundsMessage(w, h, x, y) ==
    [kind |-> "OutOfBoundsCoordinate", width |-> w, height |-> h, x |-> x, y |-> y]

UnknownDirectionMessage(direction) ==
    [kind |-> "UnknownDirectionCode", direction |-> direction]

\* vector::at(x).at(y) finds a tile
HasTile(m, x, y) ==
    /\ x >= 0 /\ x < Len(m.v)
    /\ y >= 0 /\ y < Len(m.v[x + 1])

WithWall(m, x, y, d, wallExists) ==
    [m EXCEPT !.v[x + 1][y + 1].walls[d] = wallExists]

\* setWallBody with the two checks in the other order.
setWallBody_DirectionFirst(w, h, x, y, direction, wallExists) ==
    IF ~mapContains(CHAR_TO_DIRECTION, direction)
    THEN /\ printed' = <<UnknownDirectionMessage(direction)>>
         /\ outcome' = "returned"
         /\ UNCHANGED m_basicMaze
    ELSE IF x < 0 \/ w <= x \/ y < 0 \/ h <= y
    THEN /\ printed' = <<OutOfBoundsMessage(w, h, x, y)>>
         /\ outcome' = "returned"
         /\ UNCHANGED m_basicMaze
    ELSE IF m_basicMaze.null
    THEN /\ printed' = <<>>
         /\ outcome' = "crashed"
         /\ UNCHANGED m_basicMaze
    ELSE IF ~HasTile(m_basicMaze, x, y)
    THEN /\ printed' = <<>>
         /\ outcome' = "threw"
         /\ UNCHANGED m_basicMaze
    ELSE /\ printed' = <<>>
         /\ outcome' = "returned"
         /\ m_basicMaze' =
              WithWall(m_basicMaze, x, y, CHAR_TO_DIRECTION[direction], wallExists)

\* setWallBody without the direction-code check: CHAR_TO_DIRECTION.at throws.
setWallBody_NoDirectionCheck(w, h, x, y, direction, wallExists) ==
    IF x < 0 \/ w <= x \/ y < 0 \/ h <= y
    THEN /\ printed' = <<OutOfBoundsMessage(w, h, x, y)>>
         /\ outcome' = "returned"
         /\ UNCHANGED m_basicMaze
    ELSE IF m_basicMaze.null
    THEN /\ printed' = <<>>
         /\ outcome' = "crashed"
         /\ UNCHANGED m_basicMaze
    ELSE IF ~HasTile(m_basicMaze, x, y) \/ ~mapContains(CHAR_TO_DIRECTION, direction)
    THEN /\ printed' = <<>>
         /\ outcome' = "threw"
         /\ UNCHANGED m_basicMaze
    ELSE /\ printed' = <<>>
         /\ outcome' = "returned"
         /\ m_basicMaze' =
              WithWall(m_basicMaze, x, y, CHAR_TO_DIRECTION[direction], wallExists)

\* The body of setWall once getWidth() and getHeight() have yielded w and h.
setWallBody(w, h, x, y, direction, wallExists) ==
    IF x < 0 \/ w <= x \/ y < 0 \/ h <= y
    THEN /\ printed' = <<OutOfBoundsMessage(w, h, x, y)>>
         /\ outcome' = "returned"
         /\ UNCHANGED m_basicMaze
    ELSE IF ~mapContains(CHAR_TO_DIRECTION, direction)
    THEN /\ printed' = <<UnknownDirectionMessage(direction)>>
         /\ outcome' = "returned"
         /\ UNCHANGED m_basicMaze
    ELSE IF m_basicMaze.null
    THEN /\ printed' = <<>>
         /\ outcome' = "crashed"
         /\ UNCHANGED m_basicMaze
    ELSE IF ~HasTile(m_basicMaze, x, y)
    THEN \* at() throws std::out_of_range
         /\ printed' = <<>>
         /\ outcome' = "threw"
         /\ UNCHANGED m_basicMaze
    ELSE /\ printed' = <<>>
         /\ outcome' = "returned"
         /\ m_basicMaze' =
              WithWall(m_basicMaze, x, y, CHAR_TO_DIRECTION[direction], wallExists)

setWall(x, y, direction, wallExists) ==
    /\ nCalls < MaxCalls
    /\ nCalls' = nCalls + 1
    /\ call' = [op |-> "setWall", x |-> x, y |-> y, direction |-> direction,
                wallExists |-> wallExists]
    /\ ret' = 0
    /\ IF m_basicMaze.null
       THEN \* m_basicMaze->size() on a null pointer is undefined
            \/ /\ outcome' = "crashed"
               /\ printed' = <<>>
               /\ UNCHANGED m_basicMaze
            \/ \E w \in UBInts, h \in UBInts :
                  setWallBody(w, h, x, y, direction, wallExists)
       ELSE setWallBody(getWidth(m_basicMaze), getHeight(m_basicMaze),
                        x, y, direction, wallExists)
    /\ UNCHANGED <<view, mul>>

callGetWidth ==
    /\ nCalls < MaxCalls
    /\ nCalls' = nCalls + 1
    /\ call' = [op |-> "getWidth"]
    /\ printed' = <<>>
    /\ IF m_basicMaze.null
       THEN \/ outcome' = "crashed" /\ ret' = 0
            \/ outcome' = "returned" /\ ret' \in UBInts
       ELSE outcome' = "returned" /\ ret' = getWidth(m_basicMaze)
    /\ UNCHANGED <<m_basicMaze, view, mul>>

callGetHeight ==
    /\ nCalls < MaxCalls
    /\ nCalls' = nCalls + 1
    /\ call' = [op |-> "getHeight"]
    /\ printed' = <<>>
    /\ IF m_basicMaze.null
       THEN \/ outcome' = "crashed" /\ ret' = 0
            \/ outcome' = "returned" /\ ret' \in UBInts
       ELSE outcome' = "returned" /\ ret' = getHeight(m_basicMaze)
    /\ UNCHANGED <<m_basicMaze, view, mul>>

(***************************************************************************)
(* Exact rational arithmetic: <<n, d>> with d > 0 and gcd(n, d) = 1.       *)
(***************************************************************************)
Abs(n) == IF n < 0 THEN -n ELSE n

RECURSIVE GCD(_, _)
GCD(a, b) == IF b = 0 THEN a ELSE GCD(b, a % b)

Frac(n, d) ==
    LET g == GCD(Abs(n), Abs(d))
        sgn == IF d < 0 THEN -1 ELSE 1
    IN  <<(sgn * n) \div g, (sgn * d) \div g>>

R(n) == <<n, 1>>

RAdd(a, b) == Frac(a[1] * b[2] + b[1] * a[2], a[2] * b[2])
RSub(a, b) == Frac(a[1] * b[2] - b[1] * a[2], a[2] * b[2])
RMul(a, b) == Frac(a[1] * b[1], a[2] * b[2])
RDiv(a, b) == Frac(a[1] * b[2], a[2] * b[1])
RNeg(a) == <<-a[1], a[2]>>
RLeq(a, b) == a[1] * b[2] <= b[1] * a[2]
RMin(a, b) == IF RLeq(b, a) THEN b ELSE a

Half == Frac(1, 2)
Zero == R(0)
One == R(1)

(***************************************************************************)
(* TransformationMatrix: a 4x4 matrix is a tuple of 16 rationals, row-major.*)
(***************************************************************************)
\* QVector::at(n) of a 16-element vector kept as a tuple
at(m, n) == m[n + 1]

TranslationMatrix(tx, ty) ==
    << One, Zero, Zero,   tx,
      Zero,  One, Zero,   ty,
      Zero, Zero,  One, Zero,
      Zero, Zero, Zero,  One>>

ScalingMatrix(sx, sy) ==
    <<  sx, Zero, Zero, Zero,
      Zero,   sy, Zero, Zero,
      Zero, Zero,  One, Zero,
      Zero, Zero, Zero,  One>>

RotationMatrix(cosine, sine) ==
    <<    cosine,   sine, Zero, Zero,
      RNeg(sine), cosine, Zero, Zero,
            Zero,   Zero,  One, Zero,
            Zero,   Zero, Zero,  One>>

\* product4x4 reading right.at(4*j+k): the product with the transpose.
product4x4_Transposed(l, r) ==
    LET value(i, j, k) == RMul(at(l, 4 * i + k), at(r, 4 * j + k))
        result(i, j) ==
            RAdd(RAdd(RAdd(RAdd(Zero, value(i, j, 0)), value(i, j, 1)),
                      value(i, j, 2)), value(i, j, 3))
    IN  <<result(0, 0), result(0, 1), result(0, 2), result(0, 3),
          result(1, 0), result(1, 1), result(1, 2), result(1, 3),
          result(2, 0), result(2, 1), result(2, 2), result(2, 3),
          result(3, 0), result(3, 1), result(3, 2), result(3, 3)>>

\* The 16 values pushed back for the operands l and r: result is filled in
\* the order i = 0..3, j = 0..3, and each value is the sum over k = 0..3 of
\* left.at(4*i+k) * right.at(4*k+j), added in that order.
product4x4(l, r) ==
    LET value(i, j, k) == RMul(at(l, 4 * i + k), at(r, 4 * k + j))
        result(i, j) ==
            RAdd(RAdd(RAdd(RAdd(Zero, value(i, j, 0)), value(i, j, 1)),
                      value(i, j, 2)), value(i, j, 3))
    IN  <<result(0, 0), result(0, 1), result(0, 2), result(0, 3),
          result(1, 0), result(1, 1), result(1, 2), result(1, 3),
          result(2, 0), result(2, 1), result(2, 2), result(2, 3),
          result(3, 0), result(3, 1), result(3, 2), result(3, 3)>>

\* The operands are passed by value: both are evaluated before the loops run.
multiply4x4Matrices(left, right) ==
    CHOOSE result \in {product4x4(l, r) : l \in {left}, r \in {right}} : TRUE

\* coordinate is a pair of rationals, windowSize a pair of integers
mapPixelCoordinateToOpenGlCoordinate(coordinate, windowSize) ==
    <<RSub(RDiv(RMul(R(2), coordinate[1]), R(windowSize[1])), One),
      RSub(RDiv(RMul(R(2), coordinate[2]), R(windowSize[2])), One)>>

\* pixelsPerMeter of the full map, with max in place of min.
fullMapPixelsPerMeter_Max(physicalMazeSize, fullMapSize) ==
    LET perWidth == RDiv(R(fullMapSize[1]), physicalMazeSize[1])
        perHeight == RDiv(R(fullMapSize[2]), physicalMazeSize[2])
    IN  IF RLeq(perWidth, perHeight) THEN perHeight ELSE perWidth

fullMapPixelsPerMeter(physicalMazeSize, fullMapSize) ==
    RMin(RDiv(R(fullMapSize[1]), physicalMazeSize[1]),
         RDiv(R(fullMapSize[2]), physicalMazeSize[2]))

\* The initial translation with the half-wall offset subtracted.
initialTranslationMatrix_Negated(wallWidth) ==
    TranslationMatrix(RNeg(RMul(Half, wallWidth)), RNeg(RMul(Half, wallWidth)))

initialTranslationMatrix(wallWidth) ==
    TranslationMatrix(RMul(Half, wallWidth), RMul(Half, wallWidth))

\* wallWidth in meters; physicalMazeSize a pair of rationals (meters);
\* fullMapPosition, fullMapSize, windowSize pairs of integers (pixels)
getFullMapTransformationMatrix(wallWidth, physicalMazeSize, fullMapPosition, fullMapSize, windowSize) ==
    LET physicalWidth == physicalMazeSize[1]
        physicalHeight == physicalMazeSize[2]
        pixelsPerMeter == fullMapPixelsPerMeter(physicalMazeSize, fullMapSize)
        pixelWidth == RMul(pixelsPerMeter, physicalWidth)
        pixelHeight == RMul(pixelsPerMeter, physicalHeight)
        openGlOrigin == mapPixelCoordinateToOpenGlCoordinate(<<Zero, Zero>>, windowSize)
        openGlMazeSize ==
            mapPixelCoordinateToOpenGlCoordinate(<<pixelWidth, pixelHeight>>, windowSize)
        openGlWidth == RSub(openGlMazeSize[1], openGlOrigin[1])
        openGlHeight == RSub(openGlMazeSize[2], openGlOrigin[2])
        horizontalScaling == RDiv(openGlWidth, physicalWidth)
        verticalScaling == RDiv(openGlHeight, physicalHeight)
        scalingMatrix == ScalingMatrix(horizontalScaling, verticalScaling)
        pixelLowerLeftCornerX ==
            RAdd(R(fullMapPosition[1]), RMul(Half, RSub(R(fullMapSize[1]), pixelWidth)))
        pixelLowerLeftCornerY ==
            RAdd(R(fullMapPosition[2]), RMul(Half, RSub(R(fullMapSize[2]), pixelHeight)))
        openGlLowerLeftCorner ==
            mapPixelCoordinateToOpenGlCoordinate(
                <<pixelLowerLeftCornerX, pixelLowerLeftCornerY>>, windowSize)
        translationMatrix ==
            TranslationMatrix(openGlLowerLeftCorner[1], openGlLowerLeftCorner[2])
    IN  multiply4x4Matrices(translationMatrix,
        multiply4x4Matrices(scalingMatrix,
                            initialTranslationMatrix(wallWidth)))

\* The combined translation with the dynamic translation added.
combinedTranslation_Added(staticTranslation, dynamicTranslation, openGlOrigin) ==
    <<RAdd(RAdd(staticTranslation[1], dynamicTranslation[1]), openGlOrigin[1]),
      RAdd(RAdd(staticTranslation[2], dynamicTranslation[2]), openGlOrigin[2])>>

\* horizontalTranslation, verticalTranslation
combinedTranslation(staticTranslation, dynamicTranslation, openGlOrigin) ==
    <<RAdd(RSub(staticTranslation[1], dynamicTranslation[1]), openGlOrigin[1]),
      RAdd(RSub(staticTranslation[2], dynamicTranslation[2]), openGlOrigin[2])>>

\* The rotation applied about the origin of the window, not about the centre
\* of the zoomed map.
rotateZoomedMapCamera_AboutOrigin(translateToOriginMatrix, scalingMatrix, rotationMatrix, inverseScalingMatrix, inverseTranslateToOriginMatrix, zoomedMapCameraMatrix) ==
    multiply4x4Matrices(scalingMatrix,
    multiply4x4Matrices(rotationMatrix,
    multiply4x4Matrices(inverseScalingMatrix,
                        zoomedMapCameraMatrix)))

\* the product formed when rotateZoomedMap is set
rotateZoomedMapCamera(translateToOriginMatrix, scalingMatrix, rotationMatrix, inverseScalingMatrix, inverseTranslateToOriginMatrix, zoomedMapCameraMatrix) ==
    multiply4x4Matrices(translateToOriginMatrix,
    multiply4x4Matrices(scalingMatrix,
    multiply4x4Matrices(rotationMatrix,
    multiply4x4Matrices(inverseScalingMatrix,
    multiply4x4Matrices(inverseTranslateToOriginMatrix,
                        zoomedMapCameraMatrix)))))

\* A heading is the pair <<cos, sin>> of currentMouseRotation; theta is the
\* heading less 90 degrees, so cos(theta) = sin(heading) and
\* sin(theta) = -cos(heading).
cosTheta(currentMouseRotation) == currentMouseRotation[2]
sinTheta(currentMouseRotation) == RNeg(currentMouseRotation[1])

getZoomedMapTransformationMatrix(physicalMazeSize, zoomedMapPosition, zoomedMapSize, windowSize, screenPixelsPerMeter, zoomedMapScale, rotateZoomedMap, initialMouseTranslation, currentMouseTranslation, currentMouseRotation) ==
    LET physicalWidth == physicalMazeSize[1]
        physicalHeight == physicalMazeSize[2]
        pixelsPerMeter == RMul(screenPixelsPerMeter, zoomedMapScale)
        pixelWidth == RMul(pixelsPerMeter, physicalWidth)
        pixelHeight == RMul(pixelsPerMeter, physicalHeight)
        openGlOrigin == mapPixelCoordinateToOpenGlCoordinate(<<Zero, Zero>>, windowSize)
        openGlMazeSize ==
            mapPixelCoordinateToOpenGlCoordinate(<<pixelWidth, pixelHeight>>, windowSize)
        openGlWidth == RSub(openGlMazeSize[1], openGlOrigin[1])
        openGlHeight == RSub(openGlMazeSize[2], openGlOrigin[2])
        horizontalScaling == RDiv(openGlWidth, physicalWidth)
        verticalScaling == RDiv(openGlHeight, physicalHeight)
        scalingMatrix == ScalingMatrix(horizontalScaling, verticalScaling)
        centerXPixels == RMul(initialMouseTranslation[1], pixelsPerMeter)
        centerYPixels == RMul(initialMouseTranslation[2], pixelsPerMeter)
        zoomedMapCenterXPixels ==
            RAdd(R(zoomedMapPosition[1]), RMul(Half, R(zoomedMapSize[1])))
        zoomedMapCenterYPixels ==
            RAdd(R(zoomedMapPosition[2]), RMul(Half, R(zoomedMapSize[2])))
        staticTranslationXPixels == RSub(zoomedMapCenterXPixels, centerXPixels)
        staticTranslationYPixels == RSub(zoomedMapCenterYPixels, centerYPixels)
        staticTranslation ==
            mapPixelCoordinateToOpenGlCoordinate(
                <<staticTranslationXPixels, staticTranslationYPixels>>, windowSize)
        mouseTranslationDelta ==
            <<RSub(currentMouseTranslation[1], initialMouseTranslation[1]),
              RSub(currentMouseTranslation[2], initialMouseTranslation[2])>>
        dynamicTranslationXPixels == RMul(mouseTranslationDelta[1], pixelsPerMeter)
        dynamicTranslationYPixels == RMul(mouseTranslationDelta[2], pixelsPerMeter)
        dynamicTranslation ==
            mapPixelCoordinateToOpenGlCoordinate(
                <<dynamicTranslationXPixels, dynamicTranslationYPixels>>, windowSize)
        translation == combinedTranslation(staticTranslation, dynamicTranslation, openGlOrigin)
        translationMatrix == TranslationMatrix(translation[1], translation[2])
        rotationMatrix ==
            RotationMatrix(cosTheta(currentMouseRotation), sinTheta(currentMouseRotation))
        inverseScalingMatrix ==
            ScalingMatrix(RDiv(One, horizontalScaling), RDiv(One, verticalScaling))
        zoomedMapCenterOpenGl ==
            mapPixelCoordinateToOpenGlCoordinate(
                <<zoomedMapCenterXPixels, zoomedMapCenterYPixels>>, windowSize)
        translateToOriginMatrix ==
            TranslationMatrix(zoomedMapCenterOpenGl[1], zoomedMapCenterOpenGl[2])
        inverseTranslateToOriginMatrix ==
            TranslationMatrix(RNeg(zoomedMapCenterOpenGl[1]), RNeg(zoomedMapCenterOpenGl[2]))
        zoomedMapCameraMatrix == multiply4x4Matrices(translationMatrix, scalingMatrix)
    IN  IF rotateZoomedMap
        THEN rotateZoomedMapCamera(translateToOriginMatrix, scalingMatrix, rotationMatrix,
                                   inverseScalingMatrix, inverseTranslateToOriginMatrix,
                                   zoomedMapCameraMatrix)
        ELSE zoomedMapCameraMatrix

XCoords == -1..MaxWidth

YCoords == -1..MaxHeight

IdleView == [pc |-> "idle"]
IdleMul == [pc |-> "idle"]

InitMaze ==
    /\ m_basicMaze \in InitialMazes
    /\ call = NoCall
    /\ outcome = "returned"
    /\ ret = 0
    /\ printed = <<>>
    /\ nCalls = 0
    /\ view = IdleView
    /\ mul = IdleMul

NextMaze ==
    \/ \E x \in XCoords, y \in YCoords, direction \in Chars, wallExists \in BOOLEAN :
          setWall(x, y, direction, wallExists)
    \/ callGetWidth
    \/ callGetHeight

SpecMaze == InitMaze /\ [][NextMaze]_vars

(***************************************************************************)
(* The builders applied to inputs drawn by the initial state.              *)
(***************************************************************************)
\* physical maze sizes, in half meters
PhysicalMazeSizes == {<<Frac(a, 2), Frac(b, 2)>> : a \in 1..MaxPhys, b \in 1..MaxPhys}

WallWidths == {Frac(12, 1000), Frac(1, 10)}

MapPositions == {<<0, 0>>, <<10, 20>>}

MapSizes == {<<400, 400>>, <<200, 400>>, <<300, 100>>}

WindowSizes == {<<400, 400>>, <<800, 600>>}

ScreenPixelsPerMeter == {R(100), Frac(725, 2)}

ZoomedMapScales == {Frac(k, 2) : k \in 1..MaxZoom}

\* agent positions, in meters
MouseTranslations == {<<Zero, Zero>>, <<Frac(1, 4), Frac(1, 2)>>, <<Frac(9, 10), Frac(1, 3)>>}

\* headings <<cos, sin>>: 90 degrees, 0 degrees, and two oblique ones
MouseRotations ==
    {<<Zero, One>>, <<One, Zero>>, <<Frac(3, 5), Frac(4, 5)>>, <<Frac(-5, 13), Frac(-12, 13)>>}

FullMapInputs ==
    [wallWidth : WallWidths, physicalMazeSize : PhysicalMazeSizes,
     fullMapPosition : MapPositions, fullMapSize : MapSizes, windowSize : WindowSizes]

ZoomedMapInputs ==
    [physicalMazeSize : {<<One, One>>, <<Frac(3, 2), Half>>},
     zoomedMapPosition : MapPositions, zoomedMapSize : MapSizes \ {<<200, 400>>},
     windowSize : WindowSizes, screenPixelsPerMeter : ScreenPixelsPerMeter,
     zoomedMapScale : ZoomedMapScales, rotateZoomedMap : BOOLEAN,
     initialMouseTranslation : MouseTranslations,
     currentMouseTranslation : MouseTranslations,
     currentMouseRotation : MouseRotations]

callGetFullMapTransformationMatrix ==
    /\ view.pc = "full"
    /\ view' = [pc |-> "fullDone", in |-> view.in,
                out |-> getFullMapTransformationMatrix(
                            view.in.wallWidth, view.in.physicalMazeSize,
                            view.in.fullMapPosition, view.in.fullMapSize,
                            view.in.windowSize)]
    /\ UNCHANGED <<mazeVars, mul>>

callGetZoomedMapTransformationMatrix ==
    /\ view.pc = "zoomed"
    /\ view' = [pc |-> "zoomedDone", in |-> view.in,
                out |-> getZoomedMapTransformationMatrix(
                            view.in.physicalMazeSize, view.in.zoomedMapPosition,
                            view.in.zoomedMapSize, view.in.windowSize,
                            view.in.screenPixelsPerMeter, view.in.zoomedMapScale,
                            view.in.rotateZoomedMap, view.in.initialMouseTranslation,
                            view.in.currentMouseTranslation,
                            view.in.currentMouseRotation)]
    /\ UNCHANGED <<mazeVars, mul>>

IdleMaze ==
    /\ m_basicMaze = [null |-> FALSE, v |-> <<>>]
    /\ call = NoCall
    /\ outcome = "returned"
    /\ ret = 0
    /\ printed = <<>>
    /\ nCalls = 0

InitView ==
    /\ IdleMaze
    /\ mul = IdleMul
    /\ view \in {[pc |-> "full", in |-> i, out |-> <<>>] : i \in FullMapInputs}
            \cup {[pc |-> "zoomed", in |-> i, out |-> <<>>] : i \in ZoomedMapInputs}

NextView ==
    \/ callGetFullMapTransformationMatrix
    \/ callGetZoomedMapTransformationMatrix

SpecView == InitView /\ [][NextView]_vars

(***************************************************************************)
(* multiply4x4Matrices applied to three matrices with integer entries.     *)
(***************************************************************************)
\* A 16-element matrix with entries in -3..3, one per seed.
IntegerEntry(seed, n) == R((((seed + 2) * (n + 1) * (n + seed + 3)) % 7) - 3)

IntegerMatrix(seed) ==
    LET e(n) == IntegerEntry(seed, n)
    IN  <<e(0), e(1), e(2), e(3), e(4), e(5), e(6), e(7),
          e(8), e(9), e(10), e(11), e(12), e(13), e(14), e(15)>>

Matrices == {IntegerMatrix(seed) : seed \in 0..MaxSeed}

\* left becomes (a b) c
multiplyLeftFirst ==
    /\ mul.pc \in {"start", "rightDone"}
    /\ mul' = [mul EXCEPT
                 !.left = multiply4x4Matrices(multiply4x4Matrices(mul.a, mul.b), mul.c),
                 !.pc = IF mul.pc = "start" THEN "leftDone" ELSE "done"]
    /\ UNCHANGED <<mazeVars, view>>

\* right becomes a (b c)
multiplyRightFirst ==
    /\ mul.pc \in {"start", "leftDone"}
    /\ mul' = [mul EXCEPT
                 !.right = multiply4x4Matrices(mul.a, multiply4x4Matrices(mul.b, mul.c)),
                 !.pc = IF mul.pc = "start" THEN "rightDone" ELSE "done"]
    /\ UNCHANGED <<mazeVars, view>>

InitMul ==
    /\ IdleMaze
    /\ view = IdleView
    /\ mul \in [pc : {"start"}, a : Matrices, b : Matrices, c : Matrices,
                left : {<<>>}, right : {<<>>}]

NextMul ==
    \/ multiplyLeftFirst
    \/ multiplyRightFirst

SpecMul == InitMul /\ [][NextMul]_vars

(***************************************************************************)
(* Claims about the wall-grid interface (checked under SpecMaze).          *)
(***************************************************************************)
\* A step that is a setWall call on an existing (non-null) grid.
SetWallStep ==
    /\ nCalls' = nCalls + 1
    /\ call'.op = "setWall"
    /\ ~m_basicMaze.null

\* (x, y) outside [0, getWidth()) x [0, getHeight()) of grid m
OutsideGrid(m, x, y) == x < 0 \/ x >= getWidth(m) \/ y < 0 \/ y >= getHeight(m)

\* C1: a setWall call whose x or y is outside [0,getWidth()) x [0,getHeight()),
\* whatever its direction character, changes no wall flag and emits exactly
\* one diagnostic, the OutOfBoundsCoordinate one with the grid's width and
\* height and the offending x and y (never the UnknownDirectionCode one).
C1_OutOfBoundsIgnored ==
    [][(SetWallStep /\ OutsideGrid(m_basicMaze, call'.x, call'.y))
        => /\ m_basicMaze' = m_basicMaze
           /\ outcome' = "returned"
           /\ printed' = <<[kind |-> "OutOfBoundsCoordinate",
                            width |-> Len(m_basicMaze.v),
                            height |-> IF m_basicMaze.v = <<>> THEN 0
                                       ELSE Len(m_basicMaze.v[1]),
                            x |-> call'.x, y |-> call'.y]>>]_vars

\* C1 witness: an out-of-bounds setWall with an unrecognized direction
\* character has reported the out-of-bounds diagnostic.
C1_Witness ==
    /\ call.op = "setWall"
    /\ ~m_basicMaze.null
    /\ Len(m_basicMaze.v) > 0
    /\ OutsideGrid(m_basicMaze, call.x, call.y)
    /\ call.direction \notin DOMAIN CHAR_TO_DIRECTION
    /\ Len(printed) = 1
    /\ printed[1].kind = "OutOfBoundsCoordinate"

\* C2: a setWall call with (x, y) inside the grid and a direction character
\* that is no key of CHAR_TO_DIRECTION changes no wall flag and emits exactly
\* one diagnostic, the UnknownDirectionCode one.
C2_UnknownDirectionIgnored ==
    [][(SetWallStep /\ ~OutsideGrid(m_basicMaze, call'.x, call'.y)
          /\ call'.direction \notin DOMAIN CHAR_TO_DIRECTION)
        => /\ m_basicMaze' = m_basicMaze
           /\ outcome' = "returned"
           /\ printed' = <<[kind |-> "UnknownDirectionCode",
                            direction |-> call'.direction]>>
           /\ printed'[1].kind # "OutOfBoundsCoordinate"]_vars

\* C2 witness: an in-bounds setWall with direction 'x' has reported the
\* unknown-direction diagnostic.
C2_Witness ==
    /\ call.op = "setWall"
    /\ ~m_basicMaze.null
    /\ ~OutsideGrid(m_basicMaze, call.x, call.y)
    /\ call.direction = "x"
    /\ printed = <<[kind |-> "UnknownDirectionCode", direction |-> "x"]>>

\* C3: a setWall call with (x, y) inside [0,getWidth()) x [0,getHeight()) and
\* a recognized direction character leaves the wall flag of tile (x, y) for
\* that direction equal to wallExists, changes no other flag of any tile,
\* keeps the grid's width and height, and emits no diagnostic.
C3_SetsExactlyOneFlag ==
    [][(SetWallStep /\ ~OutsideGrid(m_basicMaze, call'.x, call'.y)
          /\ call'.direction \in DOMAIN CHAR_TO_DIRECTION)
        => /\ outcome' = "returned"
           /\ printed' = <<>>
           /\ DOMAIN m_basicMaze'.v = DOMAIN m_basicMaze.v
           /\ \A i \in DOMAIN m_basicMaze.v :
                 /\ DOMAIN m_basicMaze'.v[i] = DOMAIN m_basicMaze.v[i]
                 /\ \A j \in DOMAIN m_basicMaze.v[i] : \A d \in Directions :
                       m_basicMaze'.v[i][j].walls[d] =
                          IF /\ i = call'.x + 1
                             /\ j = call'.y + 1
                             /\ d = CHAR_TO_DIRECTION[call'.direction]
                          THEN call'.wallExists
                          ELSE m_basicMaze.v[i][j].walls[d]
           /\ call'.y + 1 \in DOMAIN m_basicMaze'.v[call'.x + 1]]_vars

\* C9: setWall on any grid the interface can reference (empty and ragged
\* grids included) returns normally; it emits nothing, or one of the two
\* diagnostics.
C9_SetWallNeverThrows ==
    (call.op = "setWall" /\ ~m_basicMaze.null)
        => /\ outcome = "returned"
           /\ Len(printed) <= 1
           /\ \A i \in DOMAIN printed :
                 printed[i].kind \in {"OutOfBoundsCoordinate", "UnknownDirectionCode"}

\* C10: getWidth returns the length of the grid's outer dimension, 0 for an
\* empty grid and 0 for a null grid reference, and never fails.
C10_GetWidth ==
    call.op = "getWidth"
        => /\ outcome = "returned"
           /\ ret = IF m_basicMaze.null THEN 0 ELSE Len(m_basicMaze.v)

(***************************************************************************)
(* Claims about the transformation matrices (SpecView, SpecMul).           *)
(***************************************************************************)
\* The matrix m applied to the homogeneous point (p[1], p[2], 0, 1).
ApplyTo(m, p) ==
    <<RAdd(RAdd(RMul(m[1], p[1]), RMul(m[2], p[2])), m[4]),
      RAdd(RAdd(RMul(m[5], p[1]), RMul(m[6], p[2])), m[8])>>

\* The normalized device coordinate of pixel p (a pair of rationals) in a
\* window of size w: 2 p / w - 1 on each axis.
NdcOfPixel(p, w) ==
    <<Frac(2 * p[1][1] - w[1] * p[1][2], w[1] * p[1][2]),
      Frac(2 * p[2][1] - w[2] * p[2][2], w[2] * p[2][2])>>

\* The pixel whose normalized device coordinate is n, in a window of size w.
PixelOfNdc(n, w) ==
    <<Frac((n[1][1] + n[1][2]) * w[1], 2 * n[1][2]),
      Frac((n[2][1] + n[2][2]) * w[2], 2 * n[2][2])>>

\* The centre pixel of the zoomed map's target region.
ZoomedMapCentre(in) ==
    <<Frac(2 * in.zoomedMapPosition[1] + in.zoomedMapSize[1], 2),
      Frac(2 * in.zoomedMapPosition[2] + in.zoomedMapSize[2], 2)>>

\* C4: with rotation disabled, the zoomed-map matrix maps the agent's
\* current physical position to the normalized device coordinate of the
\* centre pixel of the target region, zoomedMapPosition + zoomedMapSize / 2.
C4_ZoomedCentresAgent ==
    (view.pc = "zoomedDone" /\ ~view.in.rotateZoomedMap)
        => ApplyTo(view.out, view.in.currentMouseTranslation)
              = NdcOfPixel(ZoomedMapCentre(view.in), view.in.windowSize)

\* C4 witness: a non-rotating zoomed map has been built for an agent that
\* has moved away from its initial position, and centres it.
C4_Witness ==
    /\ view.pc = "zoomedDone"
    /\ ~view.in.rotateZoomedMap
    /\ view.in.currentMouseTranslation # view.in.initialMouseTranslation
    /\ view.in.zoomedMapPosition # <<0, 0>>
    /\ ApplyTo(view.out, view.in.currentMouseTranslation)
          = NdcOfPixel(ZoomedMapCentre(view.in), view.in.windowSize)

\* C5: with rotation enabled, for every heading, the zoomed-map matrix still
\* maps the agent's current physical position to the normalized device
\* coordinate of the centre pixel of the target region.
C5_RotationFixesAgent ==
    (view.pc = "zoomedDone" /\ view.in.rotateZoomedMap)
        => ApplyTo(view.out, view.in.currentMouseTranslation)
              = NdcOfPixel(ZoomedMapCentre(view.in), view.in.windowSize)

\* C5 witness: a rotating zoomed map has been built for an oblique heading
\* and a moved agent; the matrix has off-diagonal entries and centres it.
C5_Witness ==
    /\ view.pc = "zoomedDone"
    /\ view.in.rotateZoomedMap
    /\ view.in.currentMouseRotation = <<Frac(3, 5), Frac(4, 5)>>
    /\ view.in.currentMouseTranslation # view.in.initialMouseTranslation
    /\ view.out[2] # Zero
    /\ ApplyTo(view.out, view.in.currentMouseTranslation)
          = NdcOfPixel(ZoomedMapCentre(view.in), view.in.windowSize)

\* The full-map scenario: wallWidth 0.012 m, a 1 m x 1 m maze, a 400 x 400
\* target region at (0, 0) in a 400 x 400 window.
FullMapScenario ==
    /\ view.pc = "fullDone"
    /\ view.in = [wallWidth |-> Frac(12, 1000), physicalMazeSize |-> <<One, One>>,
                  fullMapPosition |-> <<0, 0>>, fullMapSize |-> <<400, 400>>,
                  windowSize |-> <<400, 400>>]

\* 0.5 * wallWidth * pixelsPerMeter, with pixelsPerMeter = 400
ScenarioOffset == RMul(RMul(Half, Frac(12, 1000)), R(400))

\* C6 as stated: in the full-map scenario the matrix maps physical (0, 0) to
\* the pixel lying the offset above and to the right of the target region's
\* lower-left corner, and physical (1, 1) to the target region's upper-right
\* corner minus the offset on both axes.
C6_ScenarioAsStated ==
    FullMapScenario
        => /\ PixelOfNdc(ApplyTo(view.out, <<Zero, Zero>>), view.in.windowSize)
                = <<RAdd(R(0), ScenarioOffset), RAdd(R(0), ScenarioOffset)>>
           /\ PixelOfNdc(ApplyTo(view.out, <<One, One>>), view.in.windowSize)
                = <<RSub(R(400), ScenarioOffset), RSub(R(400), ScenarioOffset)>>

\* C6 amended: in the full-map scenario the matrix maps physical (0, 0) to
\* the pixel lying the offset above and to the right of the target region's
\* lower-left corner, and physical (1, 1) to the target region's upper-right
\* corner plus the offset on both axes.
C6_ScenarioAmended ==
    FullMapScenario
        => /\ PixelOfNdc(ApplyTo(view.out, <<Zero, Zero>>), view.in.windowSize)
                = <<RAdd(R(0), ScenarioOffset), RAdd(R(0), ScenarioOffset)>>
           /\ PixelOfNdc(ApplyTo(view.out, <<One, One>>), view.in.windowSize)
                = <<RAdd(R(400), ScenarioOffset), RAdd(R(400), ScenarioOffset)>>

\* C6 witness: the scenario's matrix has been built; (0, 0) lands on pixel
\* (2.4, 2.4) and (1, 1) on pixel (402.4, 402.4).
C6_Witness ==
    /\ FullMapScenario
    /\ PixelOfNdc(ApplyTo(view.out, <<Zero, Zero>>), view.in.windowSize)
          = <<Frac(24, 10), Frac(24, 10)>>
    /\ PixelOfNdc(ApplyTo(view.out, <<One, One>>), view.in.windowSize)
          = <<Frac(4024, 10), Frac(4024, 10)>>

\* The pixels per meter the matrix m scales by, on each axis.
MatrixPixelsPerMeter(m, w) ==
    <<RMul(m[1], Frac(w[1], 2)), RMul(m[6], Frac(w[2], 2))>>

\* The pixel the matrix m sends the maze's outer lower-left corner to: the
\* physical point half a wall width below and left of physical (0, 0).
MazeLowerLeftPixel(m, in) ==
    PixelOfNdc(ApplyTo(m, <<RNeg(RMul(Half, in.wallWidth)),
                            RNeg(RMul(Half, in.wallWidth))>>), in.windowSize)

\* C7: the full-map matrix uses one pixelsPerMeter for both axes; the maze's
\* pixel size is at most the target region's size on each axis and equal to it
\* on at least one; the maze's lower-left pixel corner is
\* fullMapPosition + (fullMapSize - mazePixelSize) / 2, so the margins are
\* equal and the maze rectangle lies inside the target region.
C7_FullMapFitsAndCentres ==
    view.pc = "fullDone"
        => LET in == view.in
               ppm == MatrixPixelsPerMeter(view.out, in.windowSize)
               pixelW == RMul(ppm[1], in.physicalMazeSize[1])
               pixelH == RMul(ppm[2], in.physicalMazeSize[2])
               ll == MazeLowerLeftPixel(view.out, in)
               posX == R(in.fullMapPosition[1])
               posY == R(in.fullMapPosition[2])
               sizeX == R(in.fullMapSize[1])
               sizeY == R(in.fullMapSize[2])
           IN  /\ ppm[1] = ppm[2]
               /\ RLeq(pixelW, sizeX) /\ RLeq(pixelH, sizeY)
               /\ pixelW = sizeX \/ pixelH = sizeY
               /\ ll[1] = RAdd(posX, RMul(Half, RSub(sizeX, pixelW)))
               /\ ll[2] = RAdd(posY, RMul(Half, RSub(sizeY, pixelH)))
               /\ RLeq(posX, ll[1]) /\ RLeq(RAdd(ll[1], pixelW), RAdd(posX, sizeX))
               /\ RLeq(posY, ll[2]) /\ RLeq(RAdd(ll[2], pixelH), RAdd(posY, sizeY))

\* C7 witness: a full map has been built for a maze whose aspect ratio
\* differs from the target region's, leaving a margin of 100 pixels on each
\* side of the x axis of a region placed away from the window's corner.
C7_Witness ==
    /\ view.pc = "fullDone"
    /\ view.in.physicalMazeSize = <<Half, One>>
    /\ view.in.fullMapSize = <<400, 400>>
    /\ view.in.fullMapPosition = <<10, 20>>
    /\ MatrixPixelsPerMeter(view.out, view.in.windowSize) = <<R(400), R(400)>>
    /\ MazeLowerLeftPixel(view.out, view.in) = <<R(110), R(20)>>

\* C8: multiply4x4Matrices is associative on matrices with integer entries:
\* (a b) c = a (b c).
C8_MultiplyAssociative ==
    mul.pc = "done" => mul.left = mul.right

\* C8 witness: both products of three different matrices have been
\* computed, agree, and differ from the product taken in the other order.
C8_Witness ==
    /\ mul.pc = "done"
    /\ mul.a # mul.b /\ mul.b # mul.c /\ mul.a # mul.c
    /\ mul.left = mul.right
    /\ mul.left # multiply4x4Matrices(mul.c, multiply4x4Matrices(mul.b, mul.a))

====
